---------------------------- MODULE Spec2Model ----------------------------
(***************************************************************************)
(* NIST CSF 2.0 data models (src/src/models/csf_models.py): the element    *)
(* variants with their identifier grammar, the relationship record, and    *)
(* the CSFFramework aggregate with its caches, queries and integrity       *)
(* validation.  Python strings are sequences of one-character strings, so  *)
(* that startswith, split and the regular expressions are computed.        *)
(***************************************************************************)
EXTENDS Integers, Sequences, FiniteSets, TLC

VARIABLES
    pc,                   \* "loading" | "ready" | "failed": load_framework_from_json
    loaded_elements,      \* the list built by the comprehension at line 528
    loaded_relationships, \* the list built by the comprehension at line 529
    elements,             \* CSFFramework.elements
    relationships,        \* CSFFramework.relationships
    documents,            \* CSFFramework.documents
    functions_cache,      \* CSFFramework.functions_cache (None until built)
    categories_cache,     \* CSFFramework.categories_cache
    subcategories_cache,  \* CSFFramework.subcategories_cache
    call,                 \* the last operation called, with its argument
    result,               \* what that call returned or raised
    now,                  \* the clock that datetime.now(timezone.utc) reads
    profile,              \* an OrganizationProfile object (None until constructed)
    db                    \* the tables of the SQLite database of the CSV importer

vars == <<pc, loaded_elements, loaded_relationships, elements, relationships,
          documents, functions_cache, categories_cache, subcategories_cache,
          call, result, now, profile, db>>

aggregate == <<documents, elements, relationships,
               functions_cache, categories_cache, subcategories_cache>>

\* the organizational records and the relational store live apart from the
\* framework
overlay == <<now, profile, db>>

-----------------------------------------------------------------------------
(* Bounds of the model. *)

\* the longest elements list the loader builds
MaxElements == 3

\* the longest relationships list the loader builds
MaxRelationships == 2

-----------------------------------------------------------------------------
(* Python values. *)

None == [cls |-> "None"]

ValidationError == [cls |-> "ValidationError"]

\* what a call gives back: the value it returns, or the exception it raises
Return(value) == [returned |-> value]

Raise(exception) == [raised |-> exception]

\* str.startswith
StartsWith(s, prefix) ==
    /\ Len(prefix) <= Len(s)
    /\ SubSeq(s, 1, Len(prefix)) = prefix

\* str.find: the first index (from 1) of character c in s, 0 when absent
Find(s, c) ==
    IF \E i \in 1..Len(s) : s[i] = c
    THEN CHOOSE i \in 1..Len(s) : s[i] = c /\ \A j \in 1..(i - 1) : s[j] # c
    ELSE 0

\* s.split(c)[0]: what precedes the first c, all of s when c does not occur
SplitFirst(s, c) ==
    IF Find(s, c) = 0 THEN s ELSE SubSeq(s, 1, Find(s, c) - 1)

\* the character classes of the regular expressions: [A-Z], and \d, which
\* on a str pattern matches every Unicode decimal digit ("u0663" stands for
\* the one-character string ARABIC-INDIC DIGIT THREE, "LF" for the newline)
IsUpper(c) ==
    c \in {"A", "B", "C", "D", "E", "F", "G", "H", "I", "J", "K", "L", "M",
           "N", "O", "P", "Q", "R", "S", "T", "U", "V", "W", "X", "Y", "Z"}

IsDigit(c) ==
    c \in {"0", "1", "2", "3", "4", "5", "6", "7", "8", "9", "u0663"}

\* "$" of re.match: the end of the string, or just before a final newline
AtEnd(s, n) ==
    \/ Len(s) = n
    \/ Len(s) = n + 1 /\ s[n + 1] = "LF"

\* re.match(r'^[A-Z]{2}$', v)
MatchFunctionId(v) ==
    /\ Len(v) >= 2
    /\ IsUpper(v[1]) /\ IsUpper(v[2])
    /\ AtEnd(v, 2)

\* re.match(r'^[A-Z]{2}\.[A-Z]{2}$', v)
MatchCategoryId(v) ==
    /\ Len(v) >= 5
    /\ IsUpper(v[1]) /\ IsUpper(v[2]) /\ v[3] = "."
    /\ IsUpper(v[4]) /\ IsUpper(v[5])
    /\ AtEnd(v, 5)

\* re.match(r'^[A-Z]{2}\.[A-Z]{2}-\d{2}$', v)
MatchSubcategoryId(v) ==
    /\ Len(v) >= 8
    /\ IsUpper(v[1]) /\ IsUpper(v[2]) /\ v[3] = "."
    /\ IsUpper(v[4]) /\ IsUpper(v[5]) /\ v[6] = "-"
    /\ IsDigit(v[7]) /\ IsDigit(v[8])
    /\ AtEnd(v, 8)

-----------------------------------------------------------------------------
(* Identifiers and enumerations. *)

GV == <<"G", "V">>

XX == <<"X", "X">>

GV_OC == <<"G", "V", ".", "O", "C">>

GV_OC_01 == <<"G", "V", ".", "O", "C", "-", "0", "1">>

GV_OC_02 == <<"G", "V", ".", "O", "C", "-", "0", "2">>

XX_YY == <<"X", "X", ".", "Y", "Y">>

GV_RM == <<"G", "V", ".", "R", "M">>

GV_LF == <<"G", "V", "LF">>

gv == <<"g", "v">>

GV_OC_LF == <<"G", "V", ".", "O", "C", "LF">>

GV_OC_01_LF == <<"G", "V", ".", "O", "C", "-", "0", "1", "LF">>

GV_OC_0u == <<"G", "V", ".", "O", "C", "-", "0", "u0663">>

GV_OC_1 == <<"G", "V", ".", "O", "C", "-", "1">>

XX_YY_01 == <<"X", "X", ".", "Y", "Y", "-", "0", "1">>

GV_OC_01_001 == <<"G", "V", ".", "O", "C", "-", "0", "1", ".", "0", "0", "1">>

first == <<"f", "i", "r", "s", "t">>

third == <<"t", "h", "i", "r", "d">>

INVALID == <<"I", "N", "V", "A", "L", "I", "D">>

\* class ElementType
ElementType ==
    {"function", "category", "subcategory", "implementation_example",
     "party", "withdraw_reason"}

\* CSFFunctionElement.validate_function_id: valid_functions
valid_functions ==
    {<<"G", "V">>, <<"I", "D">>, <<"P", "R">>, <<"D", "E">>, <<"R", "S">>,
     <<"R", "C">>}

\* CSFRelationship.validate_relationship_type: valid_types
valid_types == {"projection", "related_to", "supersedes", "incorporated_into"}

-----------------------------------------------------------------------------
(* Element variants.  An element is a record of its class, its identifier, *)
(* its element_type (the enum's value: use_enum_values) and its title; a   *)
(* raw record (a dict) has the last three.                                 *)

\* a validate_identifier_format that holds implementation examples to the
\* pattern it tests them against
validateStrictExamples(v, element_type) ==
    IF v = <<>> THEN FALSE
    ELSE IF element_type = "function" THEN MatchFunctionId(v)
    ELSE IF element_type = "category" THEN MatchCategoryId(v)
    ELSE IF element_type = "subcategory" THEN MatchSubcategoryId(v)
    ELSE IF element_type = "implementation_example"
         THEN Len(v) >= 8 /\ MatchSubcategoryId(SubSeq(v, 1, 8))
    ELSE TRUE

\* BaseCSFElement.validate_identifier_format: TRUE when it returns self,
\* FALSE when it raises ValueError
validate_identifier_format(v, element_type) ==
    IF v = <<>> THEN FALSE
    ELSE IF element_type = "function" THEN MatchFunctionId(v)
    ELSE IF element_type = "category" THEN MatchCategoryId(v)
    ELSE IF element_type = "subcategory" THEN MatchSubcategoryId(v)
    ELSE TRUE

\* CSFFunctionElement.validate_function_id
validate_function_id(v) == v \in valid_functions

\* CSFParty.validate_party_id
validate_party_id(v) == v \in {first, third}

\* BaseCSFElement(**data): element_type must be a value of the enum
BaseCSFElement(data) ==
    IF /\ data.element_type \in ElementType
       /\ validate_identifier_format(data.element_identifier, data.element_type)
    THEN [cls |-> "BaseCSFElement",
          element_identifier |-> data.element_identifier,
          element_type |-> data.element_type,
          title |-> data.title]
    ELSE ValidationError

\* a variant class: element_type is Literal[kind], the field validators run,
\* then the inherited validate_identifier_format
Variant(cls, kind, field_ok, data) ==
    IF /\ data.element_type = kind
       /\ field_ok
       /\ validate_identifier_format(data.element_identifier, kind)
    THEN [cls |-> cls,
          element_identifier |-> data.element_identifier,
          element_type |-> kind,
          title |-> data.title]
    ELSE ValidationError

CSFFunctionElement(data) ==
    Variant("CSFFunctionElement", "function",
            validate_function_id(data.element_identifier), data)

CSFCategory(data) == Variant("CSFCategory", "category", TRUE, data)

CSFSubcategory(data) == Variant("CSFSubcategory", "subcategory", TRUE, data)

CSFImplementationExample(data) ==
    Variant("CSFImplementationExample", "implementation_example", TRUE, data)

CSFParty(data) ==
    Variant("CSFParty", "party", validate_party_id(data.element_identifier), data)

CSFWithdrawReason(data) ==
    Variant("CSFWithdrawReason", "withdraw_reason", TRUE, data)

create_element_from_dict(data) ==
    IF data.element_type = "function" THEN CSFFunctionElement(data)
    ELSE IF data.element_type = "category" THEN CSFCategory(data)
    ELSE IF data.element_type = "subcategory" THEN CSFSubcategory(data)
    ELSE IF data.element_type = "implementation_example"
         THEN CSFImplementationExample(data)
    ELSE IF data.element_type = "party" THEN CSFParty(data)
    ELSE IF data.element_type = "withdraw_reason" THEN CSFWithdrawReason(data)
    ELSE BaseCSFElement(data)

\* class CSFFunction: the values of its members
CSFFunction ==
    {<<"G", "V">>, <<"I", "D">>, <<"P", "R">>, <<"D", "E">>, <<"R", "S">>,
     <<"R", "C">>}

\* "c in s" for a one-character c
Contains(s, c) == Find(s, c) # 0

\* BaseCSFElement.get_function: CSFFunction(...) of a FUNCTION element is
\* called outside the try, CSFFunction(func_code) of the others inside it
BaseCSFElement_get_function(self) ==
    IF self.element_type = "function"
    THEN IF self.element_identifier \in CSFFunction
         THEN Return(self.element_identifier)
         ELSE Raise("ValueError")
    ELSE IF Contains(self.element_identifier, ".")
    THEN IF SplitFirst(self.element_identifier, ".") \in CSFFunction
         THEN Return(SplitFirst(self.element_identifier, "."))
         ELSE Return(None)
    ELSE Return(None)

\* CSFCategory.get_parent_function
CSFCategory_get_parent_function(self) ==
    SplitFirst(self.element_identifier, ".")

\* a get_parent_category that cuts at the dot
getParentCategoryAtDot(self) ==
    SplitFirst(self.element_identifier, ".")

\* CSFSubcategory.get_parent_category
CSFSubcategory_get_parent_category(self) ==
    SplitFirst(self.element_identifier, "-")

\* CSFSubcategory.get_parent_function
CSFSubcategory_get_parent_function(self) ==
    SplitFirst(self.element_identifier, ".")

\* str.rfind: the last index (from 1) of character c in s, 0 when absent
RFind(s, c) ==
    IF \E i \in 1..Len(s) : s[i] = c
    THEN CHOOSE i \in 1..Len(s) :
             s[i] = c /\ \A j \in (i + 1)..Len(s) : s[j] # c
    ELSE 0

\* s.rsplit(c, 1)[0]: what precedes the last c, all of s when c does not occur
RSplitFirst(s, c) ==
    IF RFind(s, c) = 0 THEN s ELSE SubSeq(s, 1, RFind(s, c) - 1)

\* CSFImplementationExample.get_parent_subcategory
CSFImplementationExample_get_parent_subcategory(self) ==
    IF /\ Contains(self.element_identifier, ".")
       /\ Contains(self.element_identifier, "-")
    THEN RSplitFirst(self.element_identifier, ".")
    ELSE None

\* cls(**data) for the element classes
NewElement(cls, data) ==
    CASE cls = "BaseCSFElement" -> BaseCSFElement(data)
      [] cls = "CSFFunctionElement" -> CSFFunctionElement(data)
      [] cls = "CSFCategory" -> CSFCategory(data)
      [] cls = "CSFSubcategory" -> CSFSubcategory(data)
      [] cls = "CSFImplementationExample" -> CSFImplementationExample(data)
      [] cls = "CSFParty" -> CSFParty(data)
      [] cls = "CSFWithdrawReason" -> CSFWithdrawReason(data)

\* CSFRelationship(**rel): validate_relationship_type
CSFRelationship(rel) ==
    IF rel.relationship_identifier \in valid_types
    THEN [cls |-> "CSFRelationship",
          source_element_identifier |-> rel.source_element_identifier,
          dest_element_identifier |-> rel.dest_element_identifier,
          relationship_identifier |-> rel.relationship_identifier]
    ELSE ValidationError

-----------------------------------------------------------------------------
(* dict: an insertion-ordered sequence of key/value items.                 *)

DictHas(d, k) == \E i \in 1..Len(d) : d[i].key = k

\* d.setdefault(k, v): a key already present keeps its value
DictSetDefault(d, k, v) ==
    IF DictHas(d, k) THEN d ELSE Append(d, [key |-> k, value |-> v])

\* a d[k] = v that moves a key already present to the end
DictSetMoveToEnd(d, k, v) ==
    Append(SelectSeq(d, LAMBDA item : item.key # k), [key |-> k, value |-> v])

\* d[k] = v: a key already present keeps its place and takes the new value
DictSet(d, k, v) ==
    IF DictHas(d, k)
    THEN [i \in 1..Len(d) |-> IF d[i].key = k THEN [key |-> k, value |-> v] ELSE d[i]]
    ELSE Append(d, [key |-> k, value |-> v])

\* d.get(k)
DictGet(d, k) ==
    IF DictHas(d, k) THEN d[CHOOSE i \in 1..Len(d) : d[i].key = k].value ELSE None

Front(s) == SubSeq(s, 1, Len(s) - 1)

-----------------------------------------------------------------------------
(* CSFFramework.                                                           *)

\* the loop of _build_caches, for the cache of one kind: the three branches
\* are exclusive, so each cache is the fold of its own branch
RECURSIVE BuildCache(_, _)
BuildCache(elems, kind) ==
    IF elems = <<>> THEN <<>>
    ELSE LET d == BuildCache(Front(elems), kind)
             element == elems[Len(elems)]
         IN  IF element.element_type = kind
             THEN DictSet(d, element.element_identifier, element)
             ELSE d

\* get_function / get_category / get_subcategory
get_function(function_id) == DictGet(functions_cache, function_id)

get_category(category_id) == DictGet(categories_cache, category_id)

get_subcategory(subcategory_id) == DictGet(subcategories_cache, subcategory_id)

\* [v for k, v in cache.items() if k.startswith(prefix)]
RECURSIVE ItemsWithPrefix(_, _)
ItemsWithPrefix(cache, prefix) ==
    IF cache = <<>> THEN <<>>
    ELSE LET rest == ItemsWithPrefix(Front(cache), prefix)
             item == cache[Len(cache)]
         IN  IF StartsWith(item.key, prefix) THEN Append(rest, item.value) ELSE rest

\* get_categories_for_function without the dot after function_id
getCategoriesByBarePrefix(function_id) ==
    ItemsWithPrefix(categories_cache, function_id)

get_categories_for_function(function_id) ==
    ItemsWithPrefix(categories_cache, function_id \o <<".">>)

\* get_subcategories_for_category as a scan of elements, like
\* get_implementation_examples
RECURSIVE SubcategoriesIn(_, _)
SubcategoriesIn(elems, prefix) ==
    IF elems = <<>> THEN <<>>
    ELSE LET rest == SubcategoriesIn(Front(elems), prefix)
             elem == elems[Len(elems)]
         IN  IF /\ elem.element_type = "subcategory"
                /\ StartsWith(elem.element_identifier, prefix)
             THEN Append(rest, elem)
             ELSE rest

getSubcategoriesByScan(category_id) ==
    SubcategoriesIn(elements, category_id \o <<"-">>)

get_subcategories_for_category(category_id) ==
    ItemsWithPrefix(subcategories_cache, category_id \o <<"-">>)

RECURSIVE ExamplesIn(_, _)
ExamplesIn(elems, prefix) ==
    IF elems = <<>> THEN <<>>
    ELSE LET rest == ExamplesIn(Front(elems), prefix)
             elem == elems[Len(elems)]
         IN  IF /\ elem.element_type = "implementation_example"
                /\ StartsWith(elem.element_identifier, prefix)
             THEN Append(rest, elem)
             ELSE rest

\* get_implementation_examples without the test of the kind
getElementsUnder(subcategory_id) ==
    SelectSeq(elements,
              LAMBDA elem : StartsWith(elem.element_identifier,
                                       subcategory_id \o <<".">>))

get_implementation_examples(subcategory_id) ==
    ExamplesIn(elements, subcategory_id \o <<".">>)

\* the loop of get_element_by_id from position i on
RECURSIVE ScanElements(_, _)
ScanElements(i, element_id) ==
    IF i > Len(elements) THEN None
    ELSE IF elements[i].element_identifier = element_id THEN elements[i]
    ELSE ScanElements(i + 1, element_id)

\* get_element_by_id answered from the three caches
getElementFromCaches(element_id) ==
    IF DictHas(functions_cache, element_id) THEN DictGet(functions_cache, element_id)
    ELSE IF DictHas(categories_cache, element_id)
         THEN DictGet(categories_cache, element_id)
    ELSE DictGet(subcategories_cache, element_id)

\* get_element_by_id returning the last element that carries element_id
getLastElementById(element_id) ==
    IF \E i \in 1..Len(elements) : elements[i].element_identifier = element_id
    THEN elements[CHOOSE i \in 1..Len(elements) :
             /\ elements[i].element_identifier = element_id
             /\ \A j \in (i + 1)..Len(elements) :
                    elements[j].element_identifier # element_id]
    ELSE None

get_element_by_id(element_id) == ScanElements(1, element_id)

\* the tuple's first component: rel.relationship_identifier, or
\* f"reverse_{rel.relationship_identifier}"
Forward(relationship_identifier) ==
    [prefix |-> "", relationship_identifier |-> relationship_identifier]

Reverse(relationship_identifier) ==
    [prefix |-> "reverse_", relationship_identifier |-> relationship_identifier]

\* RelatedOf without the tests of dest_elem and source_elem
RelatedOfUnchecked(rel, element_id) ==
    IF rel.source_element_identifier = element_id
    THEN << <<Forward(rel.relationship_identifier),
              get_element_by_id(rel.dest_element_identifier)>> >>
    ELSE IF rel.dest_element_identifier = element_id
    THEN << <<Reverse(rel.relationship_identifier),
              get_element_by_id(rel.source_element_identifier)>> >>
    ELSE <<>>

\* one iteration of the loop of get_related_elements: what rel appends
RelatedOf(rel, element_id) ==
    IF rel.source_element_identifier = element_id
    THEN LET dest_elem == get_element_by_id(rel.dest_element_identifier)
         IN  IF dest_elem # None
             THEN << <<Forward(rel.relationship_identifier), dest_elem>> >>
             ELSE <<>>
    ELSE IF rel.dest_element_identifier = element_id
    THEN LET source_elem == get_element_by_id(rel.source_element_identifier)
         IN  IF source_elem # None
             THEN << <<Reverse(rel.relationship_identifier), source_elem>> >>
             ELSE <<>>
    ELSE <<>>

RECURSIVE RelatedUpTo(_, _)
RelatedUpTo(n, element_id) ==
    IF n = 0 THEN <<>>
    ELSE RelatedUpTo(n - 1, element_id) \o RelatedOf(relationships[n], element_id)

get_related_elements(element_id) == RelatedUpTo(Len(relationships), element_id)

\* validate_framework_integrity.  A finding is the message's kind with the
\* values the f-string interpolates.
element_ids == [i \in 1..Len(elements) |-> elements[i].element_identifier]

Count(ids, id) == Cardinality({i \in 1..Len(ids) : ids[i] = id})

\* duplicates with the count compared to 2
duplicatesAboveTwo == {element_ids[i] : i \in {j \in 1..Len(element_ids) :
                                                  Count(element_ids, element_ids[j]) > 2}}

duplicates == {element_ids[i] : i \in {j \in 1..Len(element_ids) :
                                        Count(element_ids, element_ids[j]) > 1}}

DuplicateFindings ==
    IF duplicates # {}
    THEN <<[kind |-> "Duplicate element IDs found", ids |-> duplicates]>>
    ELSE <<>>

valid_ids == {element_ids[i] : i \in 1..Len(element_ids)}

\* RelationshipFindingsOf with the destination checked in an elif
RelationshipFindingsOfElif(rel) ==
    IF rel.source_element_identifier \notin valid_ids
    THEN <<[kind |-> "Relationship references invalid source",
            id |-> rel.source_element_identifier]>>
    ELSE IF rel.dest_element_identifier \notin valid_ids
    THEN <<[kind |-> "Relationship references invalid destination",
            id |-> rel.dest_element_identifier]>>
    ELSE <<>>

\* RelationshipFindingsOf with the destination checked before the source
relationshipFindingsDestinationFirst(rel) ==
    (IF rel.dest_element_identifier \notin valid_ids
     THEN <<[kind |-> "Relationship references invalid destination",
             id |-> rel.dest_element_identifier]>>
     ELSE <<>>)
    \o
    (IF rel.source_element_identifier \notin valid_ids
     THEN <<[kind |-> "Relationship references invalid source",
             id |-> rel.source_element_identifier]>>
     ELSE <<>>)

RelationshipFindingsOf(rel) ==
    (IF rel.source_element_identifier \notin valid_ids
     THEN <<[kind |-> "Relationship references invalid source",
             id |-> rel.source_element_identifier]>>
     ELSE <<>>)
    \o
    (IF rel.dest_element_identifier \notin valid_ids
     THEN <<[kind |-> "Relationship references invalid destination",
             id |-> rel.dest_element_identifier]>>
     ELSE <<>>)

RECURSIVE RelationshipFindings(_)
RelationshipFindings(n) ==
    IF n = 0 THEN <<>>
    ELSE RelationshipFindings(n - 1) \o RelationshipFindingsOf(relationships[n])

\* SubcategoryFindingsOf with the identifier split at '.'
SubcategoryFindingsOfDot(subcat) ==
    LET parent_cat == SplitFirst(subcat.element_identifier, ".")
    IN  IF ~DictHas(categories_cache, parent_cat)
        THEN <<[kind |-> "references non-existent category",
                subcategory |-> subcat.element_identifier,
                category |-> parent_cat]>>
        ELSE <<>>

SubcategoryFindingsOf(subcat) ==
    LET parent_cat == SplitFirst(subcat.element_identifier, "-")
    IN  IF ~DictHas(categories_cache, parent_cat)
        THEN <<[kind |-> "references non-existent category",
                subcategory |-> subcat.element_identifier,
                category |-> parent_cat]>>
        ELSE <<>>

RECURSIVE SubcategoryFindings(_)
SubcategoryFindings(n) ==
    IF n = 0 THEN <<>>
    ELSE SubcategoryFindings(n - 1)
         \o SubcategoryFindingsOf(subcategories_cache[n].value)

\* validate_framework_integrity with a category-function hierarchy check added
RECURSIVE CategoryFindings(_)
CategoryFindings(n) ==
    IF n = 0 THEN <<>>
    ELSE CategoryFindings(n - 1)
         \o (IF ~DictHas(functions_cache, SplitFirst(categories_cache[n].key, "."))
             THEN <<[kind |-> "references non-existent function",
                     category |-> categories_cache[n].key]>>
             ELSE <<>>)

validateWithCategoryCheck ==
    DuplicateFindings
    \o RelationshipFindings(Len(relationships))
    \o SubcategoryFindings(Len(subcategories_cache))
    \o CategoryFindings(Len(categories_cache))

validate_framework_integrity ==
    DuplicateFindings
    \o RelationshipFindings(Len(relationships))
    \o SubcategoryFindings(Len(subcategories_cache))

-----------------------------------------------------------------------------
(* The inputs: the raw records of the input document, and the arguments    *)
(* the queries are called with.                                            *)

Raw(element_identifier, element_type, title) ==
    [element_identifier |-> element_identifier,
     element_type |-> element_type,
     title |-> title]

RawRel(source, dest, relationship_identifier) ==
    [source_element_identifier |-> source,
     dest_element_identifier |-> dest,
     relationship_identifier |-> relationship_identifier]

\* the records the lookups are checked on: identifiers repeated within a
\* kind and across kinds, and one record that fails validation
LookupElements ==
    {Raw(GV, "function", "GOVERN"),
     Raw(GV, "function", "again"),
     Raw(GV, "withdraw_reason", ""),
     Raw(GV_OC, "category", ""),
     Raw(GV_OC, "category", "again"),
     Raw(GV_RM, "category", ""),
     Raw(XX_YY, "category", ""),
     Raw(GV_OC_01, "subcategory", ""),
     Raw(GV_OC_01, "subcategory", "again"),
     Raw(GV_OC_02, "subcategory", ""),
     Raw(XX_YY_01, "subcategory", ""),
     Raw(INVALID, "function", "")}

\* the records the integrity validation is checked on
IntegrityElements ==
    {Raw(GV, "function", "GOVERN"),
     Raw(GV, "withdraw_reason", ""),
     Raw(GV_OC, "category", ""),
     Raw(GV_OC_01, "subcategory", ""),
     Raw(XX_YY_01, "subcategory", ""),
     Raw(GV_OC_01_001, "implementation_example", ""),
     Raw(INVALID, "category", "")}

IntegrityRelationships ==
    {RawRel(GV, GV_OC, "projection"),
     RawRel(INVALID, GV, "projection"),
     RawRel(GV_OC, XX, "supersedes"),
     RawRel(INVALID, XX, "related_to"),
     RawRel(GV_OC, GV_OC_01_001, "incorporated_into"),
     RawRel(GV, GV_OC, "unknown")}

\* the records get_related_elements is checked on
RelatedElements ==
    {Raw(GV, "function", "GOVERN"),
     Raw(GV, "withdraw_reason", ""),
     Raw(GV_OC, "category", ""),
     Raw(first, "party", ""),
     Raw(INVALID, "party", "")}

RelatedRelationships ==
    {RawRel(GV, GV_OC, "projection"),
     RawRel(GV, GV, "related_to"),
     RawRel(INVALID, GV, "supersedes"),
     RawRel(GV, XX, "incorporated_into"),
     RawRel(first, GV, "related_to"),
     RawRel(GV, GV_OC, "unknown")}

\* the records every operation of the aggregate is called on
QueryElements ==
    {Raw(GV, "function", "GOVERN"),
     Raw(GV_OC, "category", ""),
     Raw(GV_OC, "category", "again"),
     Raw(GV_OC_01, "subcategory", ""),
     Raw(GV_OC_01_001, "implementation_example", ""),
     Raw(INVALID, "category", "")}

QueryRelationships ==
    {RawRel(GV, GV_OC, "projection"),
     RawRel(GV_OC_01, XX, "supersedes"),
     RawRel(GV, GV_OC, "unknown")}

G == <<"G">>

GV_O == <<"G", "V", ".", "O">>

GV_OC_01_0 == <<"G", "V", ".", "O", "C", "-", "0", "1", ".", "0">>

GV_OC_01_0_1 == <<"G", "V", ".", "O", "C", "-", "0", "1", ".", "0", ".", "1">>

GV_OC_02_001 == <<"G", "V", ".", "O", "C", "-", "0", "2", ".", "0", "0", "1">>

\* the records the prefix scans are checked on: categories, subcategories
\* and implementation examples, with identifiers that end in a newline,
\* that have further dots, and that are repeated
ScanElementRecords ==
    {Raw(GV_OC, "category", ""),
     Raw(GV_OC_LF, "category", ""),
     Raw(XX_YY, "category", ""),
     Raw(GV_OC_01, "subcategory", ""),
     Raw(GV_OC_01_LF, "subcategory", ""),
     Raw(XX_YY_01, "subcategory", ""),
     Raw(GV_OC_01_001, "implementation_example", ""),
     Raw(GV_OC_01_001, "implementation_example", "again"),
     Raw(GV_OC_01_0_1, "implementation_example", ""),
     Raw(GV_OC_02_001, "implementation_example", ""),
     Raw(first, "implementation_example", ""),
     Raw(GV_OC_01_001, "withdraw_reason", ""),
     Raw(INVALID, "subcategory", "")}

\* the document list of the input: CSFDocument, its website validated
CSFDocuments ==
    <<[doc_identifier |-> "CSF_2_0_0", name |-> "Cybersecurity Framework",
       version |-> "2.0", website |-> "https://www.nist.gov/cyberframework"]>>

-----------------------------------------------------------------------------
(* load_framework_from_json, then the calls on the framework it returns.   *)

Init ==
    /\ pc = "loading"
    /\ loaded_elements = <<>>
    /\ loaded_relationships = <<>>
    /\ documents = <<>>
    /\ elements = <<>>
    /\ relationships = <<>>
    /\ functions_cache = None
    /\ categories_cache = None
    /\ subcategories_cache = None
    /\ call = [op |-> "none", arg |-> <<>>]
    /\ result = Return(None)
    /\ now = 0
    /\ profile = None
    /\ db = [functions |-> <<>>, categories |-> <<>>, subcategories |-> <<>>]

\* one step of [create_element_from_dict(elem) for elem in ...]; when the
\* constructor raises, the load ends with the exception and nothing is built
LoadElement(data) ==
    /\ pc = "loading"
    /\ loaded_relationships = <<>>
    /\ Len(loaded_elements) < MaxElements
    /\ IF create_element_from_dict(data) = ValidationError
       THEN /\ pc' = "failed"
            /\ loaded_elements' = <<>>
       ELSE /\ pc' = pc
            /\ loaded_elements' =
                   Append(loaded_elements, create_element_from_dict(data))
    /\ UNCHANGED <<loaded_relationships, aggregate, call, result, overlay>>

\* one step of [CSFRelationship(**rel) for rel in ...]
LoadRelationship(rel) ==
    /\ pc = "loading"
    /\ Len(loaded_relationships) < MaxRelationships
    /\ IF CSFRelationship(rel) = ValidationError
       THEN /\ pc' = "failed"
            /\ loaded_elements' = <<>>
            /\ loaded_relationships' = <<>>
       ELSE /\ pc' = pc
            /\ loaded_elements' = loaded_elements
            /\ loaded_relationships' =
                   Append(loaded_relationships, CSFRelationship(rel))
    /\ UNCHANGED <<aggregate, call, result, overlay>>

\* CSFFramework(documents=..., elements=..., relationships=...): __init__
\* sets the fields and calls _build_caches
Construct ==
    /\ pc = "loading"
    /\ pc' = "ready"
    /\ documents' = CSFDocuments
    /\ elements' = loaded_elements
    /\ relationships' = loaded_relationships
    /\ functions_cache' = BuildCache(loaded_elements, "function")
    /\ categories_cache' = BuildCache(loaded_elements, "category")
    /\ subcategories_cache' = BuildCache(loaded_elements, "subcategory")
    /\ UNCHANGED <<loaded_elements, loaded_relationships, call, result, overlay>>

\* what no method of the framework assigns
frame == <<pc, loaded_elements, loaded_relationships, aggregate, overlay>>

\* a get_function that takes the entry out of the cache (dict.pop)
getFunctionByPop(id) ==
    /\ pc = "ready"
    /\ call' = [op |-> "get_function", arg |-> id]
    /\ result' = Return(get_function(id))
    /\ functions_cache' = SelectSeq(functions_cache, LAMBDA item : item.key # id)
    /\ UNCHANGED <<pc, loaded_elements, loaded_relationships, documents,
                   elements, relationships, categories_cache,
                   subcategories_cache, overlay>>

GetFunction(id) ==
    /\ pc = "ready"
    /\ call' = [op |-> "get_function", arg |-> id]
    /\ result' = Return(get_function(id))
    /\ UNCHANGED frame

GetCategory(id) ==
    /\ pc = "ready"
    /\ call' = [op |-> "get_category", arg |-> id]
    /\ result' = Return(get_category(id))
    /\ UNCHANGED frame

GetSubcategory(id) ==
    /\ pc = "ready"
    /\ call' = [op |-> "get_subcategory", arg |-> id]
    /\ result' = Return(get_subcategory(id))
    /\ UNCHANGED frame

GetCategoriesForFunction(id) ==
    /\ pc = "ready"
    /\ call' = [op |-> "get_categories_for_function", arg |-> id]
    /\ result' = Return(get_categories_for_function(id))
    /\ UNCHANGED frame

GetImplementationExamples(id) ==
    /\ pc = "ready"
    /\ call' = [op |-> "get_implementation_examples", arg |-> id]
    /\ result' = Return(get_implementation_examples(id))
    /\ UNCHANGED frame

GetSubcategoriesForCategory(id) ==
    /\ pc = "ready"
    /\ call' = [op |-> "get_subcategories_for_category", arg |-> id]
    /\ result' = Return(get_subcategories_for_category(id))
    /\ UNCHANGED frame

GetRelatedElements(id) ==
    /\ pc = "ready"
    /\ call' = [op |-> "get_related_elements", arg |-> id]
    /\ result' = Return(get_related_elements(id))
    /\ UNCHANGED frame

GetElementById(id) ==
    /\ pc = "ready"
    /\ call' = [op |-> "get_element_by_id", arg |-> id]
    /\ result' = Return(get_element_by_id(id))
    /\ UNCHANGED frame

ValidateFrameworkIntegrity ==
    /\ pc = "ready"
    /\ call' = [op |-> "validate_framework_integrity", arg |-> <<>>]
    /\ result' = Return(validate_framework_integrity)
    /\ UNCHANGED frame

\* the lookups on a loaded framework
NextLookup ==
    \/ \E data \in LookupElements : LoadElement(data)
    \/ Construct
    \/ \E id \in {GV, XX} : GetFunction(id)
    \/ \E id \in {GV_OC, GV} : GetCategory(id)
    \/ \E id \in {GV_OC_01, XX_YY_01} : GetSubcategory(id)
    \/ \E id \in {GV, XX} : GetCategoriesForFunction(id)
    \/ \E id \in {GV_OC, XX_YY} : GetSubcategoriesForCategory(id)
    \/ \E id \in {GV, GV_OC_01, XX} : GetElementById(id)

SpecLookup == Init /\ [][NextLookup]_vars

\* the integrity validation of a loaded framework
NextIntegrity ==
    \/ \E data \in IntegrityElements : LoadElement(data)
    \/ \E rel \in IntegrityRelationships : LoadRelationship(rel)
    \/ Construct
    \/ ValidateFrameworkIntegrity

SpecIntegrity == Init /\ [][NextIntegrity]_vars

\* the relationship queries on a loaded framework
NextRelated ==
    \/ \E data \in RelatedElements : LoadElement(data)
    \/ \E rel \in RelatedRelationships : LoadRelationship(rel)
    \/ Construct
    \/ \E id \in {GV, GV_OC, XX} : GetRelatedElements(id)
    \/ \E id \in {GV, XX} : GetElementById(id)
    \/ ValidateFrameworkIntegrity

SpecRelated == Init /\ [][NextRelated]_vars

\* every operation of a loaded framework
NextQueries ==
    \/ \E data \in QueryElements : LoadElement(data)
    \/ \E rel \in QueryRelationships : LoadRelationship(rel)
    \/ Construct
    \/ \E id \in {GV, XX} : GetFunction(id)
    \/ \E id \in {GV_OC} : GetCategory(id)
    \/ \E id \in {GV_OC_01} : GetSubcategory(id)
    \/ \E id \in {GV} : GetCategoriesForFunction(id)
    \/ \E id \in {GV_OC} : GetSubcategoriesForCategory(id)
    \/ \E id \in {GV_OC_01} : GetImplementationExamples(id)
    \/ \E id \in {GV_OC_01_001, XX} : GetElementById(id)
    \/ \E id \in {GV, GV_OC} : GetRelatedElements(id)
    \/ ValidateFrameworkIntegrity

SpecQueries == Init /\ [][NextQueries]_vars

\* the prefix scans of a loaded framework
NextScan ==
    \/ \E data \in ScanElementRecords : LoadElement(data)
    \/ Construct
    \/ \E id \in {<<>>, G, GV, XX, GV_OC} : GetCategoriesForFunction(id)
    \/ \E id \in {GV, GV_O, GV_OC, XX_YY, GV_OC_01} :
           GetSubcategoriesForCategory(id)
    \/ \E id \in {GV, GV_OC, GV_OC_01, GV_OC_01_0, GV_OC_02} :
           GetImplementationExamples(id)

SpecScan == Init /\ [][NextScan]_vars

-----------------------------------------------------------------------------
(* The element classes on their own: construction from a raw record, by    *)
(* create_element_from_dict or by a class, and the methods of the element  *)
(* that construction returned.                                             *)

\* the identifiers records are built with: well-formed ones of each kind,
\* an empty one, and ones that differ from a well-formed one by a case, a
\* digit, a trailing newline or a Unicode digit
ElementIdentifiers ==
    {GV, XX, gv, GV_LF, GV_OC, XX_YY, GV_OC_LF, GV_OC_01, XX_YY_01,
     GV_OC_1, GV_OC_01_LF, GV_OC_0u, GV_OC_01_001, first, third, INVALID,
     <<>>}

\* the element_type strings of the records: the six of the enum and another
ElementTypeStrings == ElementType \cup {"control"}

ElementRecords ==
    {Raw(id, type, "title") : id \in ElementIdentifiers, type \in ElementTypeStrings}

ElementClasses ==
    {"BaseCSFElement", "CSFFunctionElement", "CSFCategory", "CSFSubcategory",
     "CSFImplementationExample", "CSFParty", "CSFWithdrawReason"}

\* a constructor returns the instance or raises ValidationError
Constructed(instance) ==
    IF instance = ValidationError THEN Raise("ValidationError")
    ELSE Return(instance)

CreateElementFromDict(data) ==
    /\ call' = [op |-> "create_element_from_dict", arg |-> data]
    /\ result' = Constructed(create_element_from_dict(data))
    /\ UNCHANGED frame

ConstructElement(cls, data) ==
    /\ call' = [op |-> cls, arg |-> data]
    /\ result' = Constructed(NewElement(cls, data))
    /\ UNCHANGED frame

\* the last call constructed an element
HasElement ==
    /\ call.op \in ElementClasses \cup {"create_element_from_dict"}
    /\ "returned" \in DOMAIN result

ElementGetFunction ==
    /\ HasElement
    /\ call' = [op |-> "BaseCSFElement.get_function", arg |-> result.returned]
    /\ result' = BaseCSFElement_get_function(result.returned)
    /\ UNCHANGED frame

CategoryGetParentFunction ==
    /\ HasElement
    /\ result.returned.cls = "CSFCategory"
    /\ call' = [op |-> "CSFCategory.get_parent_function",
                arg |-> result.returned]
    /\ result' = Return(CSFCategory_get_parent_function(result.returned))
    /\ UNCHANGED frame

SubcategoryGetParentFunction ==
    /\ HasElement
    /\ result.returned.cls = "CSFSubcategory"
    /\ call' = [op |-> "CSFSubcategory.get_parent_function",
                arg |-> result.returned]
    /\ result' = Return(CSFSubcategory_get_parent_function(result.returned))
    /\ UNCHANGED frame

SubcategoryGetParentCategory ==
    /\ HasElement
    /\ result.returned.cls = "CSFSubcategory"
    /\ call' = [op |-> "CSFSubcategory.get_parent_category",
                arg |-> result.returned]
    /\ result' = Return(CSFSubcategory_get_parent_category(result.returned))
    /\ UNCHANGED frame

ExampleGetParentSubcategory ==
    /\ HasElement
    /\ result.returned.cls = "CSFImplementationExample"
    /\ call' = [op |-> "CSFImplementationExample.get_parent_subcategory",
                arg |-> result.returned]
    /\ result' = Return(CSFImplementationExample_get_parent_subcategory(
                            result.returned))
    /\ UNCHANGED frame

NextElements ==
    \/ \E data \in ElementRecords : CreateElementFromDict(data)
    \/ \E cls \in ElementClasses, data \in ElementRecords :
           ConstructElement(cls, data)
    \/ ElementGetFunction
    \/ CategoryGetParentFunction
    \/ SubcategoryGetParentFunction
    \/ SubcategoryGetParentCategory
    \/ ExampleGetParentSubcategory

SpecElements == Init /\ [][NextElements]_vars

-----------------------------------------------------------------------------
(* The organizational records.  A score is counted in hundredths, so that  *)
(* 4.0 is 400 and 2.5 is 250; a time is a reading of the clock; a keyword  *)
(* argument that may be left out is a sequence of at most one value.       *)

\* the latest reading of the clock
MaxClock == 2

\* class ImplementationTier
ImplementationTier ==
    {"Tier 1 - Partial", "Tier 2 - Risk Informed", "Tier 3 - Repeatable",
     "Tier 4 - Adaptive"}

\* Field(default_factory=...): the supplied value, else the factory's
FieldOr(supplied, default) == IF supplied = <<>> THEN default ELSE supplied[1]

\* OrganizationProfile.update_timestamp (mode='before'): the keyword
\* arguments with updated_at set to the clock
update_timestamp(values, clock) == [values EXCEPT !.updated_at = <<clock>>]

\* OrganizationProfile(**data) with the clock reading clock
OrganizationProfile(data, clock) ==
    IF data.current_tier \in ImplementationTier
    THEN [cls |-> "OrganizationProfile",
          org_id |-> data.org_id,
          industry |-> data.industry,
          current_tier |-> data.current_tier,
          created_at |-> FieldOr(update_timestamp(data, clock).created_at, clock),
          updated_at |-> FieldOr(update_timestamp(data, clock).updated_at, clock)]
    ELSE ValidationError

\* a RiskAssessment that keeps the risk_score it is given
riskAssessmentAsSupplied(data) ==
    IF /\ data.risk_level \in {"Low", "Medium", "High", "Critical"}
       /\ data.likelihood >= 1 /\ data.likelihood <= 5
       /\ data.impact >= 1 /\ data.impact <= 5
       /\ data.risk_score # <<>>
    THEN [cls |-> "RiskAssessment",
          risk_level |-> data.risk_level,
          likelihood |-> data.likelihood,
          impact |-> data.impact,
          risk_score |-> data.risk_score[1]]
    ELSE ValidationError

\* RiskAssessment(**data): the fields are validated (risk_score is
\* required), then calculate_risk_score assigns risk_score
RiskAssessment(data) ==
    IF /\ data.risk_level \in {"Low", "Medium", "High", "Critical"}
       /\ data.likelihood >= 1 /\ data.likelihood <= 5
       /\ data.impact >= 1 /\ data.impact <= 5
       /\ data.risk_score # <<>>
    THEN [cls |-> "RiskAssessment",
          risk_level |-> data.risk_level,
          likelihood |-> data.likelihood,
          impact |-> data.impact,
          risk_score |-> (data.likelihood * data.impact * 100) \div 5]
    ELSE ValidationError

\* GapAnalysis(**data): the fields are validated (gap_score is required),
\* then calculate_gap assigns gap_score
GapAnalysis(data) ==
    IF /\ data.priority \in {"Low", "Medium", "High", "Critical"}
       /\ data.current_score >= 0 /\ data.current_score <= 500
       /\ data.target_score >= 0 /\ data.target_score <= 500
       /\ data.gap_score # <<>>
    THEN [cls |-> "GapAnalysis",
          priority |-> data.priority,
          current_score |-> data.current_score,
          target_score |-> data.target_score,
          gap_score |-> data.target_score - data.current_score]
    ELSE ValidationError

\* the keyword arguments the assessments are constructed with: scores on and
\* beyond the ends of their ranges, a derived score right, wrong or left out
RiskRecords ==
    {[risk_level |-> level, likelihood |-> likelihood, impact |-> impact,
      risk_score |-> risk_score] :
        level \in {"High", "Extreme"},
        likelihood \in {0, 1, 3, 4, 5, 6},
        impact \in {0, 1, 2, 5, 6},
        risk_score \in {<<>>, <<0>>, <<400>>, <<9900>>}}

GapRecords ==
    {[priority |-> priority, current_score |-> current, target_score |-> target,
      gap_score |-> gap_score] :
        priority \in {"High", "Urgent"},
        current \in {-1, 0, 250, 400, 500},
        target \in {0, 250, 400, 500, 501},
        gap_score \in {<<>>, <<0>>, <<150>>, <<9900>>}}

ProfileRecords ==
    {[org_id |-> "ORG-001", industry |-> "Technology", current_tier |-> tier,
      created_at |-> created_at, updated_at |-> updated_at] :
        tier \in {"Tier 2 - Risk Informed", "Tier 5"},
        created_at \in {<<>>, <<0>>},
        updated_at \in {<<>>, <<0>>}}

\* the attribute assignments made on a profile
ProfileAssignments ==
    {<<"industry", "Finance">>, <<"industry", "Technology">>,
     <<"current_tier", "Tier 3 - Repeatable">>}

NewRiskAssessment(data) ==
    /\ call' = [op |-> "RiskAssessment", arg |-> data]
    /\ result' = Constructed(RiskAssessment(data))
    /\ UNCHANGED frame

NewGapAnalysis(data) ==
    /\ call' = [op |-> "GapAnalysis", arg |-> data]
    /\ result' = Constructed(GapAnalysis(data))
    /\ UNCHANGED frame

NextAssessments ==
    \/ \E data \in RiskRecords : NewRiskAssessment(data)
    \/ \E data \in GapRecords : NewGapAnalysis(data)

SpecAssessments == Init /\ [][NextAssessments]_vars

\* time passes
Tick ==
    /\ now < MaxClock
    /\ now' = now + 1
    /\ UNCHANGED <<pc, loaded_elements, loaded_relationships, aggregate,
                   call, result, profile, db>>

\* org = OrganizationProfile(**data): org is bound when the constructor
\* returns
NewOrganizationProfile(data) ==
    /\ call' = [op |-> "OrganizationProfile", arg |-> data, at |-> now]
    /\ result' = Constructed(OrganizationProfile(data, now))
    /\ profile' = IF OrganizationProfile(data, now) = ValidationError
                  THEN profile
                  ELSE OrganizationProfile(data, now)
    /\ UNCHANGED <<pc, loaded_elements, loaded_relationships, aggregate, now,
                   db>>

\* org.<name> = value: the model does not validate assignments, and no
\* validator runs
SetProfileField(name, value) ==
    /\ profile # None
    /\ call' = [op |-> "OrganizationProfile.__setattr__",
                arg |-> <<name, value>>, at |-> now]
    /\ result' = Return(None)
    /\ profile' = [profile EXCEPT ![name] = value]
    /\ UNCHANGED <<pc, loaded_elements, loaded_relationships, aggregate, now,
                   db>>

NextProfile ==
    \/ Tick
    \/ \E data \in ProfileRecords : NewOrganizationProfile(data)
    \/ \E assignment \in ProfileAssignments :
           SetProfileField(assignment[1], assignment[2])

SpecProfile == Init /\ [][NextProfile]_vars

-----------------------------------------------------------------------------
(* import-csv-framework.py: the rows of the CSV file are parsed into three *)
(* dicts, whose values are then inserted into the tables of the database.  *)

\* the longest CSV file, its header not counted
MaxRows == 3

\* s.strip(chars)
RECURSIVE LStrip(_, _)
LStrip(s, chars) ==
    IF s # <<>> /\ s[1] \in chars THEN LStrip(Tail(s), chars) ELSE s

RECURSIVE RStrip(_, _)
RStrip(s, chars) ==
    IF s # <<>> /\ s[Len(s)] \in chars THEN RStrip(Front(s), chars) ELSE s

Strip(s, chars) == RStrip(LStrip(s, chars), chars)

\* the characters str.strip() removes
Whitespace == {" ", "TAB", "LF"}

\* row[i].strip().strip('"')
CellText(cell) == Strip(Strip(cell, Whitespace), {"\""})

\* s[:n]
Take(s, n) == SubSeq(s, 1, IF n < Len(s) THEN n ELSE Len(s))

\* s.split(c, 1)[1], for an s that contains c
AfterFirst(s, c) == SubSeq(s, Find(s, c) + 1, Len(s))

\* re.search(r'\(([A-Z]{2})\)', text): whether the pattern matches at i
FunctionIdAt(text, i) ==
    /\ i + 3 <= Len(text)
    /\ text[i] = "(" /\ IsUpper(text[i + 1]) /\ IsUpper(text[i + 2])
    /\ text[i + 3] = ")"

\* group 1 of the leftmost match, <<>> when there is no match
SearchFunctionId(text) ==
    IF \E i \in 1..Len(text) : FunctionIdAt(text, i)
    THEN LET i == CHOOSE i \in 1..Len(text) :
                      /\ FunctionIdAt(text, i)
                      /\ \A j \in 1..(i - 1) : ~FunctionIdAt(text, j)
         IN  SubSeq(text, i + 1, i + 2)
    ELSE <<>>

\* re.search(r'\(([A-Z]{2}\.[A-Z]{2})\)', text): whether the pattern
\* matches at i
CategoryIdAt(text, i) ==
    /\ i + 6 <= Len(text)
    /\ text[i] = "(" /\ IsUpper(text[i + 1]) /\ IsUpper(text[i + 2])
    /\ text[i + 3] = "."
    /\ IsUpper(text[i + 4]) /\ IsUpper(text[i + 5])
    /\ text[i + 6] = ")"

SearchCategoryId(text) ==
    IF \E i \in 1..Len(text) : CategoryIdAt(text, i)
    THEN LET i == CHOOSE i \in 1..Len(text) :
                      /\ CategoryIdAt(text, i)
                      /\ \A j \in 1..(i - 1) : ~CategoryIdAt(text, j)
         IN  SubSeq(text, i + 1, i + 5)
    ELSE <<>>

\* re.search(r'^([A-Z]{2}\.[A-Z]{2}-\d{2})', text)
SearchSubcategoryId(text) ==
    IF /\ Len(text) >= 8
       /\ IsUpper(text[1]) /\ IsUpper(text[2]) /\ text[3] = "."
       /\ IsUpper(text[4]) /\ IsUpper(text[5]) /\ text[6] = "-"
       /\ IsDigit(text[7]) /\ IsDigit(text[8])
    THEN SubSeq(text, 1, 8)
    ELSE <<>>

\* the three dicts of import_csv_framework
NoTables == [functions |-> <<>>, categories |-> <<>>, subcategories |-> <<>>]

\* a subcategory's category_id taken as what precedes the dot
categoryIdAtDot(subcategory_id) == SplitFirst(subcategory_id, ".")

\* subcategory_id[:5]
CategoryIdOf(subcategory_id) == Take(subcategory_id, 5)

\* category_id[:2]
FunctionIdOf(category_id) == Take(category_id, 2)

\* the body of "for row in reader" on the cleaned cells of one row
ParseCells(parsed, function_text, category_text, subcategory_text) ==
    LET function_id == SearchFunctionId(function_text)
        category_id == SearchCategoryId(category_text)
        subcategory_id == SearchSubcategoryId(subcategory_text)
    IN  [functions |->
            IF function_id # <<>>
            THEN DictSet(parsed.functions, function_id,
                         [id |-> function_id,
                          name |-> Strip(SplitFirst(function_text, "("), Whitespace),
                          description |-> function_text])
            ELSE parsed.functions,
         categories |->
            IF category_id # <<>>
            THEN DictSet(parsed.categories, category_id,
                         [id |-> category_id,
                          function_id |-> FunctionIdOf(category_id),
                          name |-> Strip(SplitFirst(category_text, "("), Whitespace),
                          description |-> category_text])
            ELSE parsed.categories,
         subcategories |->
            IF subcategory_id # <<>>
            THEN DictSet(parsed.subcategories, subcategory_id,
                         [id |-> subcategory_id,
                          category_id |-> CategoryIdOf(subcategory_id),
                          description |->
                              IF Contains(subcategory_text, ":")
                              THEN Strip(AfterFirst(subcategory_text, ":"), Whitespace)
                              ELSE subcategory_text])
            ELSE parsed.subcategories]

\* one row: rows of fewer than three cells are passed over
ParseRow(parsed, row) ==
    IF Len(row) >= 3
    THEN ParseCells(parsed, CellText(row[1]), CellText(row[2]), CellText(row[3]))
    ELSE parsed

\* the loop over the rows that follow the header
RECURSIVE ParseRows(_)
ParseRows(rows) ==
    IF rows = <<>> THEN NoTables
    ELSE ParseRow(ParseRows(Front(rows)), rows[Len(rows)])

\* the rows inserted into a table: the values of the dict in its order,
\* stamped with the time of the insertion (subcategories with an empty name)
Inserted(dict, clock) ==
    [i \in 1..Len(dict) |->
        [column \in DOMAIN dict[i].value \cup {"name", "created_at"} |->
            IF column = "created_at" THEN <<clock>>
            ELSE IF column \in DOMAIN dict[i].value THEN dict[i].value[column]
            ELSE <<>>]]

\* the tables after import_csv_framework on a cleared database
ImportedTables(rows, clock) ==
    [functions |-> Inserted(ParseRows(rows).functions, clock),
     categories |-> Inserted(ParseRows(rows).categories, clock),
     subcategories |-> Inserted(ParseRows(rows).subcategories, clock)]

\* the header line of the file
CsvHeader == <<<<"F">>, <<"C">>, <<"S">>>>

\* the data rows: rows with matches in every cell, with a quoted or padded
\* cell, with two parenthesised identifiers, with no match, and a short row
CsvRows ==
    {<<<<"G", " ", "(", "G", "V", ")", ":">>,
       <<"O", " ", "(", "G", "V", ".", "O", "C", ")", ":">>,
       <<"G", "V", ".", "O", "C", "-", "0", "1", ":", " ", "m">>>>,
     <<<<"G", " ", "(", "G", "V", ")", ":">>,
       <<" ", "\"", "R", " ", "(", "G", "V", ".", "R", "M", ")", "\"">>,
       <<" ", "G", "V", ".", "O", "C", "-", "0", "2">>>>,
     <<<<"(", "X", "X", ")">>,
       <<"(", "X", "X", ".", "Y", "Y", ")", " ", "(", "G", "V", ".", "O", "C", ")">>,
       <<"X", "X", ".", "Y", "Y", "-", "0", "u0663", ":", "t">>>>,
     <<<<"G", "V">>,
       <<"(", "g", "v", ".", "o", "c", ")">>,
       <<"G", "V", ".", "O", "C", ".", "0", "1">>>>,
     <<<<"G", " ", "(", "G", "V", ")", ":">>,
       <<"O", " ", "(", "G", "V", ".", "O", "C", ")", ":">>>>,
     <<<<"(", "X", "X", ")">>,
       <<"O", " ", "(", "G", "V", ".", "O", "C", ")", ":">>,
       <<"G", "V", ".", "O", "C", "-", "0", "1", ":", " ", "m">>>>}

\* the files: the header and up to MaxRows rows
CsvFiles ==
    {<<CsvHeader>> \o rows : rows \in UNION {[1..n -> CsvRows] : n \in 0..MaxRows}}

ClearDatabase ==
    /\ call' = [op |-> "clear_database", arg |-> <<>>]
    /\ result' = Return(None)
    /\ db' = NoTables
    /\ UNCHANGED <<pc, loaded_elements, loaded_relationships, aggregate, now,
                   profile>>

\* import_csv_framework(csv_path, db_path), run as the script runs it: on
\* the database it has just cleared
ImportCsvFramework(file) ==
    /\ db = NoTables
    /\ call' = [op |-> "import_csv_framework", arg |-> file]
    /\ result' = Return(Len(ParseRows(Tail(file)).subcategories))
    /\ db' = ImportedTables(Tail(file), now)
    /\ UNCHANGED <<pc, loaded_elements, loaded_relationships, aggregate, now,
                   profile>>

NextImport ==
    \/ ClearDatabase
    \/ \E file \in CsvFiles : ImportCsvFramework(file)

SpecImport == Init /\ [][NextImport]_vars

-----------------------------------------------------------------------------
(* Properties.                                                             *)

Returned == result.returned

\* some element has this identifier
IsElementId(id) == \E i \in 1..Len(elements) : elements[i].element_identifier = id

\* the first element of the sequence with this identifier
FirstElement(id) ==
    elements[CHOOSE i \in 1..Len(elements) :
                 /\ elements[i].element_identifier = id
                 /\ \A j \in 1..(i - 1) : elements[j].element_identifier # id]

\* the entries the two rules of get_related_elements give for one relationship
ForwardEntry(rel, id) ==
    IF /\ rel.source_element_identifier = id
       /\ get_element_by_id(rel.dest_element_identifier) # None
    THEN << <<Forward(rel.relationship_identifier),
              get_element_by_id(rel.dest_element_identifier)>> >>
    ELSE <<>>

ReverseEntry(rel, id) ==
    IF /\ rel.dest_element_identifier = id
       /\ get_element_by_id(rel.source_element_identifier) # None
    THEN << <<Reverse(rel.relationship_identifier),
              get_element_by_id(rel.source_element_identifier)>> >>
    ELSE <<>>

RECURSIVE BothDirections(_, _)
BothDirections(n, id) ==
    IF n = 0 THEN <<>>
    ELSE BothDirections(n - 1, id)
         \o ForwardEntry(relationships[n], id)
         \o ReverseEntry(relationships[n], id)

IsSelfLoop(rel, id) ==
    /\ rel.source_element_identifier = id
    /\ rel.dest_element_identifier = id

\* C1: get_related_elements(id) returns exactly the forward entry of every
\* relationship whose source is id and whose destination resolves and the
\* reverse entry of every relationship whose destination is id and whose
\* source resolves, in relationship sequence order.
C1_RelatedBothDirections ==
    call.op = "get_related_elements"
        => Returned = BothDirections(Len(relationships), call.arg)

\* C2: a self-loop on an existing element contributes two entries to
\* get_related_elements(id), one forward and one reverse.
C2_SelfLoopTwoEntries ==
    call.op = "get_related_elements"
        => \A n \in 1..Len(relationships) :
               (IsSelfLoop(relationships[n], call.arg) /\ IsElementId(call.arg))
                   => \E i, j \in 1..Len(Returned) :
                          /\ Returned[i] =
                                 <<Forward(relationships[n].relationship_identifier),
                                   FirstElement(call.arg)>>
                          /\ Returned[j] =
                                 <<Reverse(relationships[n].relationship_identifier),
                                   FirstElement(call.arg)>>

\* an entry that relationship rel gives for id with its other endpoint resolved
EntryOf(entry, rel, id) ==
    \/ /\ rel.source_element_identifier = id
       /\ IsElementId(rel.dest_element_identifier)
       /\ entry = <<Forward(rel.relationship_identifier),
                    FirstElement(rel.dest_element_identifier)>>
    \/ /\ rel.dest_element_identifier = id
       /\ IsElementId(rel.source_element_identifier)
       /\ entry = <<Reverse(rel.relationship_identifier),
                    FirstElement(rel.source_element_identifier)>>

\* rel matches id and its other endpoint is no element's identifier
DanglingFor(rel, id) ==
    \/ /\ rel.source_element_identifier = id
       /\ ~IsElementId(rel.dest_element_identifier)
    \/ /\ rel.dest_element_identifier = id
       /\ rel.source_element_identifier # id
       /\ ~IsElementId(rel.source_element_identifier)

\* rel matches id with an other endpoint that resolves
ResolvesFor(rel, id) ==
    \/ /\ rel.source_element_identifier = id
       /\ IsElementId(rel.dest_element_identifier)
    \/ /\ rel.dest_element_identifier = id
       /\ IsElementId(rel.source_element_identifier)

HasFinding(kind, id) ==
    \E i \in 1..Len(Returned) :
        Returned[i].kind = kind /\ "id" \in DOMAIN Returned[i] /\ Returned[i].id = id

\* C3: get_related_elements returns (it does not raise) whatever edges dangle:
\* every entry comes from a relationship whose other endpoint resolves, so a
\* dangling edge contributes none, and every relationship that resolves is
\* still processed; validate_framework_integrity reports each dangling end.
C3_DanglingEdgesSkipped ==
    /\ call.op = "get_related_elements"
        => /\ DOMAIN result = {"returned"}
           /\ \A i \in 1..Len(Returned) :
                  \E n \in 1..Len(relationships) :
                      EntryOf(Returned[i], relationships[n], call.arg)
           /\ Len(Returned) >=
                  Cardinality({n \in 1..Len(relationships) :
                                   ResolvesFor(relationships[n], call.arg)})
    /\ call.op = "validate_framework_integrity"
        => \A n \in 1..Len(relationships) :
               /\ ~IsElementId(relationships[n].source_element_identifier)
                    => HasFinding("Relationship references invalid source",
                                  relationships[n].source_element_identifier)
               /\ ~IsElementId(relationships[n].dest_element_identifier)
                    => HasFinding("Relationship references invalid destination",
                                  relationships[n].dest_element_identifier)

\* a dangling edge for id is followed by a relationship that gives an entry
C3_Witness ==
    /\ call.op = "get_related_elements"
    /\ \E m, n \in 1..Len(relationships) :
           /\ m < n
           /\ DanglingFor(relationships[m], call.arg)
           /\ ResolvesFor(relationships[n], call.arg)
    /\ Len(Returned) >= 1

\* the identifiers that more than one element of the sequence carries
DuplicatedIds ==
    {elements[i].element_identifier : i \in
        {i \in 1..Len(elements) :
            \E j \in 1..Len(elements) :
                j # i /\ elements[j].element_identifier = elements[i].element_identifier}}

FindingsOfKind(kind) == SelectSeq(Returned, LAMBDA f : f.kind = kind)

\* the relationship ends (of all relationships) that name no element
DanglingSources ==
    {n \in 1..Len(relationships) :
        ~IsElementId(relationships[n].source_element_identifier)}

DanglingDestinations ==
    {n \in 1..Len(relationships) :
        ~IsElementId(relationships[n].dest_element_identifier)}

\* what precedes the first '-' of an identifier (all of it when it has none)
BeforeHyphen(id) ==
    CHOOSE p \in {SubSeq(id, 1, k) : k \in 0..Len(id)} :
        /\ \A i \in 1..Len(p) : p[i] # "-"
        /\ Len(p) = Len(id) \/ id[Len(p) + 1] = "-"

CategoryKeys == {categories_cache[i].key : i \in 1..Len(categories_cache)}

\* the cached subcategories whose parent category is not cached
OrphanedSubcategories ==
    {i \in 1..Len(subcategories_cache) :
        BeforeHyphen(subcategories_cache[i].key) \notin CategoryKeys}

\* C4: validate_framework_integrity emits one duplicate-identifier finding
\* when some identifier occurs more than once among the elements of all
\* kinds and none otherwise; the finding names exactly the identifiers that
\* occur more than once, and the other findings are as many as the dangling
\* relationship ends and orphaned cached subcategories, duplicates or not.
C4_OneDuplicateFinding ==
    call.op = "validate_framework_integrity"
        => LET dups == FindingsOfKind("Duplicate element IDs found")
           IN  /\ Len(dups) = (IF DuplicatedIds # {} THEN 1 ELSE 0)
               /\ \A i \in 1..Len(dups) : dups[i].ids = DuplicatedIds
               /\ Len(Returned) - Len(dups) =
                      Cardinality(DanglingSources)
                      + Cardinality(DanglingDestinations)
                      + Cardinality(OrphanedSubcategories)

\* an identifier shared by elements of two kinds, with a dangling
\* relationship and an orphaned subcategory in the same framework
C4_Witness ==
    /\ call.op = "validate_framework_integrity"
    /\ \E i, j \in 1..Len(elements) :
           /\ elements[i].element_identifier = elements[j].element_identifier
           /\ elements[i].element_type # elements[j].element_type
    /\ DanglingSources # {}
    /\ OrphanedSubcategories # {}
    /\ Len(Returned) >= 3

CountFindings(kind, id) ==
    Cardinality({i \in 1..Len(Returned) :
                     /\ Returned[i].kind = kind
                     /\ Returned[i].id = id})

\* C5: for every relationship, an "invalid source" finding if and only if
\* its source names no element, and independently an "invalid destination"
\* finding if and only if its destination names no element: one finding per
\* dangling end, not de-duplicated across relationships.
C5_RelationshipFindings ==
    call.op = "validate_framework_integrity"
        => /\ Len(FindingsOfKind("Relationship references invalid source")) =
                  Cardinality(DanglingSources)
           /\ Len(FindingsOfKind("Relationship references invalid destination")) =
                  Cardinality(DanglingDestinations)
           /\ \A n \in 1..Len(relationships) :
                  LET src == relationships[n].source_element_identifier
                      dst == relationships[n].dest_element_identifier
                  IN  /\ CountFindings("Relationship references invalid source", src) =
                             Cardinality({m \in DanglingSources :
                                 relationships[m].source_element_identifier = src})
                      /\ CountFindings("Relationship references invalid destination", dst) =
                             Cardinality({m \in DanglingDestinations :
                                 relationships[m].dest_element_identifier = dst})

\* a relationship with both ends absent, and a second one with the same
\* absent source
C5_Witness ==
    /\ call.op = "validate_framework_integrity"
    /\ \E m, n \in 1..Len(relationships) :
           /\ m # n
           /\ m \in DanglingSources /\ m \in DanglingDestinations
           /\ n \in DanglingSources
           /\ relationships[n].source_element_identifier =
                  relationships[m].source_element_identifier
    /\ Len(FindingsOfKind("Relationship references invalid source")) = 2

\* C6: for every cached subcategory, one "non-existent category" finding if
\* what precedes the first '-' of its identifier is no key of the category
\* cache, and none if it is; there is no such finding for anything else.
C6_OrphanedSubcategoryFindings ==
    call.op = "validate_framework_integrity"
        => LET orphans == FindingsOfKind("references non-existent category")
           IN  /\ \A i \in 1..Len(subcategories_cache) :
                      Cardinality({k \in 1..Len(orphans) :
                          /\ orphans[k].subcategory = subcategories_cache[i].key
                          /\ orphans[k].category =
                                 BeforeHyphen(subcategories_cache[i].key)}) =
                      (IF i \in OrphanedSubcategories THEN 1 ELSE 0)
               /\ Len(orphans) = Cardinality(OrphanedSubcategories)

\* an orphaned subcategory that two elements carry, beside a subcategory
\* whose category is cached
C6_Witness ==
    /\ call.op = "validate_framework_integrity"
    /\ \E i, j \in 1..Len(elements) :
           /\ i # j
           /\ elements[i] = elements[j]
           /\ elements[i].element_type = "subcategory"
           /\ BeforeHyphen(elements[i].element_identifier) \notin CategoryKeys
    /\ Len(FindingsOfKind("references non-existent category")) = 1

\* C7: validate_framework_integrity returns the empty list if and only if
\* no identifier is duplicated, every relationship end names an element and
\* every cached subcategory's parent category is cached; a category without
\* its function or an implementation example without its subcategory gives
\* no finding.
C7_EmptyIffNoDefect ==
    call.op = "validate_framework_integrity"
        => (Returned = <<>>
              <=> /\ DuplicatedIds = {}
                  /\ DanglingSources = {}
                  /\ DanglingDestinations = {}
                  /\ OrphanedSubcategories = {})

\* the empty list for a framework with a category whose function is absent
\* and an implementation example whose subcategory is absent
C7_Witness ==
    /\ call.op = "validate_framework_integrity"
    /\ Returned = <<>>
    /\ \E i \in 1..Len(elements) :
           /\ elements[i].element_type = "category"
           /\ ~IsElementId(SubSeq(elements[i].element_identifier, 1, 2))
    /\ \E i \in 1..Len(elements) :
           /\ elements[i].element_type = "implementation_example"
           /\ ~IsElementId(SubSeq(elements[i].element_identifier, 1, 8))
    /\ relationships # <<>>

\* the positions of the elements of one kind with one identifier
PositionsOf(kind, id) ==
    {i \in 1..Len(elements) :
        /\ elements[i].element_type = kind
        /\ elements[i].element_identifier = id}

Max(S) == CHOOSE m \in S : \A n \in S : n <= m

KindOfLookup ==
    [get_function |-> "function", get_category |-> "category",
     get_subcategory |-> "subcategory"]

\* C8: get_function / get_category / get_subcategory return the last element
\* of the sequence with that kind and identifier, and none when there is no
\* such element; the elements sequence keeps every loaded entry, in order.
C8_LastWriteWins ==
    /\ call.op \in DOMAIN KindOfLookup
        => LET at == PositionsOf(KindOfLookup[call.op], call.arg)
           IN  Returned = (IF at = {} THEN None ELSE elements[Max(at)])
    /\ pc = "ready" => elements = loaded_elements

\* a lookup of an identifier that two different elements of the kind carry,
\* followed in the sequence by an element of another kind with the same
\* identifier
C8_Witness ==
    /\ call.op = "get_function"
    /\ \E i, j, k \in 1..Len(elements) :
           /\ i < j /\ j < k
           /\ {i, j} \subseteq PositionsOf("function", call.arg)
           /\ elements[i] # elements[j]
           /\ elements[k].element_identifier = call.arg
           /\ elements[k].element_type # "function"
           /\ Returned = elements[j]

\* C9: get_element_by_id returns the first element of the sequence with that
\* identifier, whatever its kind, and none when no element has it.
C9_FirstOfAnyKind ==
    call.op = "get_element_by_id"
        => Returned = (IF IsElementId(call.arg) THEN FirstElement(call.arg) ELSE None)

\* the identifier of a cached function, first carried by a withdrawal reason
C9_Witness ==
    /\ call.op = "get_element_by_id"
    /\ Returned # None
    /\ Returned.element_type = "withdraw_reason"
    /\ DictHas(functions_cache, call.arg)

\* the subcategory elements whose identifier starts with c, in sequence order
SubcategoriesPrefixed(c) ==
    SelectSeq(elements, LAMBDA e : /\ e.element_type = "subcategory"
                                   /\ StartsWith(e.element_identifier, c))

Range(seq) == {seq[i] : i \in 1..Len(seq)}

\* C10 as stated: get_subcategories_for_category(c) returns exactly the M
\* subcategory elements whose identifier is prefixed by c.
C10_ExactlyTheSubcategories ==
    call.op = "get_subcategories_for_category"
        => /\ Len(Returned) = Len(SubcategoriesPrefixed(call.arg))
           /\ Range(Returned) = Range(SubcategoriesPrefixed(call.arg))

\* the positions of seq that carry their identifier for the first time
FirstSeen(seq) ==
    {i \in 1..Len(seq) :
        \A j \in 1..(i - 1) : seq[j].element_identifier # seq[i].element_identifier}

\* the last entry of seq with the identifier of seq[i]
LastLike(seq, i) ==
    seq[Max({j \in 1..Len(seq) :
                 seq[j].element_identifier = seq[i].element_identifier})]

\* one entry per identifier of seq: the last that carries it, at the place
\* of the first
LastOfEach(seq) ==
    [k \in 1..Cardinality(FirstSeen(seq)) |->
        LastLike(seq, CHOOSE i \in FirstSeen(seq) :
                          Cardinality({j \in FirstSeen(seq) : j < i}) = k - 1)]

\* C10, amended: get_subcategories_for_category(c) returns one element per
\* identifier among the subcategory elements prefixed by c, the last that
\* carries it, in the order in which the identifiers first appear; these
\* are exactly the M elements when their identifiers differ.  The result is
\* a function of the subcategory elements alone.
C10_LastOfEachIdentifier ==
    call.op = "get_subcategories_for_category"
        => LET subs == SubcategoriesPrefixed(call.arg)
           IN  /\ Returned = LastOfEach(subs)
               /\ Cardinality(FirstSeen(subs)) = Len(subs) => Returned = subs

\* two different subcategories with one identifier, an element of another
\* kind between them
C10_Witness ==
    /\ call.op = "get_subcategories_for_category"
    /\ \E i, j, k \in 1..Len(elements) :
           /\ i < j /\ j < k
           /\ elements[i].element_type = "subcategory"
           /\ elements[k].element_type = "subcategory"
           /\ elements[j].element_type # "subcategory"
           /\ elements[i].element_identifier = elements[k].element_identifier
           /\ elements[i] # elements[k]
           /\ StartsWith(elements[i].element_identifier, call.arg)
           /\ Returned = <<elements[k]>>

-----------------------------------------------------------------------------
(* The element classes. *)

\* the call raised instead of returning
Raised == "raised" \in DOMAIN result

\* the variant class of each kind
VariantOf(kind) ==
    CASE kind = "function" -> "CSFFunctionElement"
      [] kind = "category" -> "CSFCategory"
      [] kind = "subcategory" -> "CSFSubcategory"
      [] kind = "implementation_example" -> "CSFImplementationExample"
      [] kind = "party" -> "CSFParty"
      [] kind = "withdraw_reason" -> "CSFWithdrawReason"

\* C11: create_element_from_dict on a record whose element_type is one of
\* the six kinds returns, when it returns, the variant of that kind; on a
\* record with any other element_type and otherwise valid fields it does not
\* fail but returns a base element.
C11_VariantOrBaseElement ==
    (/\ call.op = "create_element_from_dict"
     /\ call.arg.element_identifier # <<>>)
    => IF call.arg.element_type \in ElementType
       THEN ~Raised => Returned.cls = VariantOf(call.arg.element_type)
       ELSE ~Raised /\ Returned.cls = "BaseCSFElement"

\* the last call constructed, or failed to construct, an element of the kind
\* its record declares, by that kind's variant class or by the dispatch
ConstructsVariant ==
    /\ call.op \in ElementClasses \cup {"create_element_from_dict"}
    /\ call.arg.element_type \in ElementType
    /\ call.op \in {"create_element_from_dict", VariantOf(call.arg.element_type)}

IsAsciiDigit(c) == c \in {"0", "1", "2", "3", "4", "5", "6", "7", "8", "9"}

TwoUppercase(v) == Len(v) = 2 /\ IsUpper(v[1]) /\ IsUpper(v[2])

\* XX.YY
CategoryShape(v) ==
    /\ Len(v) = 5
    /\ TwoUppercase(SubSeq(v, 1, 2)) /\ v[3] = "."
    /\ TwoUppercase(SubSeq(v, 4, 5))

\* XX.YY-NN
SubcategoryShape(v) ==
    /\ Len(v) = 8
    /\ CategoryShape(SubSeq(v, 1, 5)) /\ v[6] = "-"
    /\ IsAsciiDigit(v[7]) /\ IsAsciiDigit(v[8])

\* the kinds with a required identifier shape, and the shape
ShapedKinds == {"function", "category", "subcategory", "party"}

HasShape(kind, v) ==
    CASE kind = "function" -> TwoUppercase(v)
      [] kind = "category" -> CategoryShape(v)
      [] kind = "subcategory" -> SubcategoryShape(v)
      [] kind = "party" -> v \in {first, third}

\* C12: constructing an element of kind FUNCTION, CATEGORY, SUBCATEGORY or
\* PARTY with an identifier that does not have the shape required of that
\* kind fails with a validation error and yields no element.
C12_MalformedIdentifierFails ==
    (/\ ConstructsVariant
     /\ call.arg.element_type \in ShapedKinds
     /\ ~HasShape(call.arg.element_type, call.arg.element_identifier))
    => Raised /\ result.raised = "ValidationError"

\* the six function codes
FunctionCodes ==
    {<<"G", "V">>, <<"I", "D">>, <<"P", "R">>, <<"D", "E">>, <<"R", "S">>,
     <<"R", "C">>}

\* well-formed for its kind, a FUNCTION identifier being any two uppercase
\* letters
WellFormedAnyLetters(kind, v) ==
    CASE kind \in ShapedKinds -> HasShape(kind, v)
      [] OTHER -> v # <<>>

\* well-formed for its kind, a FUNCTION identifier being one of the six codes
WellFormed(kind, v) ==
    IF kind = "function" THEN v \in FunctionCodes
    ELSE WellFormedAnyLetters(kind, v)

\* the construction succeeded and gave an element of the kind of its record
ConstructedOfKind ==
    /\ ~Raised
    /\ Returned.element_type = call.arg.element_type
    /\ Returned.cls = VariantOf(call.arg.element_type)
    /\ Returned.element_identifier = call.arg.element_identifier

\* C13 as stated: every record that is well-formed for its kind, a FUNCTION
\* identifier being any two uppercase letters, constructs the variant of its
\* kind, and the element's element_type is that kind.
C13_WellFormedConstructs ==
    (/\ ConstructsVariant
     /\ WellFormedAnyLetters(call.arg.element_type,
                             call.arg.element_identifier))
    => ConstructedOfKind

\* C13: every record that is well-formed for its kind (FUNCTION: one of GV,
\* ID, PR, DE, RS, RC; CATEGORY: XX.YY; SUBCATEGORY: XX.YY-NN;
\* IMPLEMENTATION_EXAMPLE and WITHDRAW_REASON: any non-empty identifier;
\* PARTY: 'first' or 'third') constructs the variant of its kind, and the
\* element's element_type is that kind.
C13_WellFormedWithFunctionCode ==
    (/\ ConstructsVariant
     /\ WellFormed(call.arg.element_type, call.arg.element_identifier))
    => ConstructedOfKind

\* an implementation example with a free-form identifier was constructed
C13_Witness ==
    /\ ConstructsVariant
    /\ call.arg.element_type = "implementation_example"
    /\ call.arg.element_identifier = INVALID
    /\ ConstructedOfKind

\* the substring of id before its first dot
BeforeDot(id) ==
    CHOOSE p \in {SubSeq(id, 1, k) : k \in 0..Len(id)} :
        /\ \A i \in 1..Len(p) : p[i] # "."
        /\ Len(p) = Len(id) \/ id[Len(p) + 1] = "."

\* C14: get_parent_function() of a CATEGORY element is the first two letters
\* of its identifier; get_parent_category() of a SUBCATEGORY element is the
\* substring of its identifier before the hyphen and its get_parent_function()
\* the substring before the dot: each is determined by the identifier alone.
C14_ParentsFromIdentifier ==
    /\ call.op = "CSFCategory.get_parent_function"
       => /\ call.arg.element_type = "category"
          /\ Returned = SubSeq(call.arg.element_identifier, 1, 2)
    /\ call.op = "CSFSubcategory.get_parent_category"
       => /\ call.arg.element_type = "subcategory"
          /\ Returned = BeforeHyphen(call.arg.element_identifier)
    /\ call.op = "CSFSubcategory.get_parent_function"
       => /\ call.arg.element_type = "subcategory"
          /\ Returned = BeforeDot(call.arg.element_identifier)

\* the parent category of subcategory GV.OC-01 was asked for
C14_Witness ==
    /\ call.op = "CSFSubcategory.get_parent_category"
    /\ call.arg.element_identifier = GV_OC_01
    /\ Returned = GV_OC

\* C15: get_function() of a constructed element of any kind returns without
\* raising: the element's own identifier for a FUNCTION element; for any
\* other element the function named by the token before the first ".", and
\* none when the identifier has no "." or the token names no function.
C15_GetFunctionNeverRaises ==
    call.op = "BaseCSFElement.get_function"
    => /\ ~Raised
       /\ Returned =
            IF call.arg.element_type = "function"
            THEN call.arg.element_identifier
            ELSE IF /\ \E i \in 1..Len(call.arg.element_identifier) :
                          call.arg.element_identifier[i] = "."
                    /\ BeforeDot(call.arg.element_identifier) \in FunctionCodes
                 THEN BeforeDot(call.arg.element_identifier)
                 ELSE None

-----------------------------------------------------------------------------
(* The organizational records. *)

\* the keyword arguments are within the declared ranges
ValidRisk(data) ==
    /\ data.risk_level \in {"Low", "Medium", "High", "Critical"}
    /\ data.likelihood \in 1..5 /\ data.impact \in 1..5
    /\ data.risk_score # <<>>

ValidGap(data) ==
    /\ data.priority \in {"Low", "Medium", "High", "Critical"}
    /\ data.current_score \in 0..500 /\ data.target_score \in 0..500
    /\ data.gap_score # <<>>

\* C16: a valid RiskAssessment is constructed with risk_score equal to
\* likelihood * impact / 5.0 and a valid GapAnalysis with gap_score equal to
\* target_score - current_score, whatever score the caller supplied (scores
\* in hundredths).
C16_DerivedScoresRecomputed ==
    /\ (call.op = "RiskAssessment" /\ ValidRisk(call.arg))
       => /\ ~Raised
          /\ 5 * Returned.risk_score = 100 * call.arg.likelihood * call.arg.impact
          /\ Returned.likelihood = call.arg.likelihood
          /\ Returned.impact = call.arg.impact
    /\ (call.op = "GapAnalysis" /\ ValidGap(call.arg))
       => /\ ~Raised
          /\ Returned.gap_score + call.arg.current_score = call.arg.target_score
          /\ Returned.current_score = call.arg.current_score
          /\ Returned.target_score = call.arg.target_score

\* likelihood 4 and impact 5 with a supplied risk_score of 99.0 gave 4.0
C16_Witness ==
    /\ call.op = "RiskAssessment"
    /\ call.arg.likelihood = 4 /\ call.arg.impact = 5
    /\ call.arg.risk_score = <<9900>>
    /\ ~Raised
    /\ Returned.risk_score = 400

\* C20: updated_at of an OrganizationProfile is refreshed to the current
\* time at construction, whatever updated_at was supplied, and again whenever
\* a field of the profile is assigned, so that it is never older than the
\* latest change of the profile.
C20_UpdatedAtRefreshed ==
    (/\ call.op \in {"OrganizationProfile", "OrganizationProfile.__setattr__"}
     /\ ~Raised)
    => profile.updated_at >= call.at

\* what holds of the code: construction sets updated_at to the current time
C20_RefreshedAtConstruction ==
    (call.op = "OrganizationProfile" /\ ~Raised)
    => Returned.updated_at = call.at

-----------------------------------------------------------------------------
(* The aggregate's queries. *)

\* the category elements, in sequence order
CategoryElements ==
    SelectSeq(elements, LAMBDA e : e.element_type = "category")

\* C17: get_categories_for_function(fid) returns the cached categories whose
\* identifier starts with fid + ".", one per identifier: the last category
\* element carrying the identifier, at the place where the identifier first
\* appeared among the category elements.
C17_CategoriesInFirstSeenOrder ==
    call.op = "get_categories_for_function"
        => /\ Returned =
                SelectSeq(LastOfEach(CategoryElements),
                          LAMBDA e : StartsWith(e.element_identifier,
                                                call.arg \o <<".">>))
           /\ \A i, j \in 1..Len(Returned) :
                  Returned[i].element_identifier = Returned[j].element_identifier
                      => i = j

\* a category identifier repeated after another category of the function:
\* the result has the later element at the earlier place
C17_Witness ==
    /\ call.op = "get_categories_for_function"
    /\ Len(elements) = 3
    /\ elements[1].element_type = "category"
    /\ elements[3].element_type = "category"
    /\ elements[1].element_identifier = elements[3].element_identifier
    /\ elements[1] # elements[3]
    /\ elements[2].element_type = "category"
    /\ elements[2].element_identifier # elements[1].element_identifier
    /\ Returned = <<elements[3], elements[2]>>

\* the index of the elements of one kind, built once from the elements
\* sequence: one entry per identifier, keyed by it, holding the last element
\* that carries it, at the place where the identifier first appears
IndexOf(kind) ==
    LET seq == LastOfEach(SelectSeq(elements, LAMBDA e : e.element_type = kind))
    IN  [k \in 1..Len(seq) |-> [key |-> seq[k].element_identifier,
                                value |-> seq[k]]]

\* each cache is the index of its kind
CachesAreIndices ==
    /\ functions_cache = IndexOf("function")
    /\ categories_cache = IndexOf("category")
    /\ subcategories_cache = IndexOf("subcategory")

\* the operations of a constructed aggregate
QueryOperations ==
    {"get_function", "get_category", "get_subcategory",
     "get_categories_for_function", "get_subcategories_for_category",
     "get_implementation_examples", "get_element_by_id",
     "get_related_elements", "validate_framework_integrity"}

\* C18: once the aggregate is constructed, no call of a query or of
\* validate_framework_integrity changes the documents, elements or
\* relationships sequences or a cache, and in every state each cache equals
\* the index built from the elements sequence.
C18_AggregateImmutable ==
    /\ [](pc = "ready" => CachesAreIndices)
    /\ [][pc = "ready" => aggregate' = aggregate]_vars

\* a query was called on an aggregate whose caches hold entries, one of them
\* written twice
C18_Witness ==
    /\ pc = "ready"
    /\ call.op \in QueryOperations
    /\ functions_cache # <<>>
    /\ categories_cache # <<>>
    /\ Len(CategoryElements) > Len(categories_cache)

-----------------------------------------------------------------------------
(* The order of the findings. *)

\* the three groups of findings
GroupOf(finding) ==
    CASE finding.kind = "Duplicate element IDs found" -> 1
      [] finding.kind \in {"Relationship references invalid source",
                           "Relationship references invalid destination"} -> 2
      [] finding.kind = "references non-existent category" -> 3

\* the dangling ends: relationship n, end 1 (source) or 2 (destination)
DanglingEnds ==
    {<<n, 1>> : n \in DanglingSources} \cup {<<n, 2>> : n \in DanglingDestinations}

\* the finding of a dangling end
EndFinding(end) ==
    IF end[2] = 1
    THEN [kind |-> "Relationship references invalid source",
          id |-> relationships[end[1]].source_element_identifier]
    ELSE [kind |-> "Relationship references invalid destination",
          id |-> relationships[end[1]].dest_element_identifier]

\* how many dangling ends come before this one: those of earlier
\* relationships, and the source of the same relationship
EndsBefore(end) ==
    Cardinality({e \in DanglingEnds :
                    \/ e[1] < end[1]
                    \/ e[1] = end[1] /\ e[2] < end[2]})

\* C19: the findings of validate_framework_integrity are ordered: the
\* duplicate-identifier finding first, then the relationship findings in
\* relationship order, a relationship's invalid source before its invalid
\* destination, then the orphaned-subcategory findings in the order of the
\* subcategory cache.
C19_FindingsOrdered ==
    call.op = "validate_framework_integrity"
        => LET ends == SelectSeq(Returned, LAMBDA f : GroupOf(f) = 2)
               orphans == SelectSeq(Returned, LAMBDA f : GroupOf(f) = 3)
           IN  /\ \A i, j \in 1..Len(Returned) :
                      i < j => GroupOf(Returned[i]) <= GroupOf(Returned[j])
               /\ Len(ends) = Cardinality(DanglingEnds)
               /\ \A end \in DanglingEnds :
                      ends[EndsBefore(end) + 1] = EndFinding(end)
               /\ Len(orphans) = Cardinality(OrphanedSubcategories)
               /\ \A k \in OrphanedSubcategories :
                      orphans[Cardinality({m \in OrphanedSubcategories : m < k}) + 1]
                          .subcategory = subcategories_cache[k].key

\* findings of all three groups: a relationship dangling at both ends after
\* another dangling relationship, and two orphaned subcategories
C19_Witness ==
    /\ call.op = "validate_framework_integrity"
    /\ Len(Returned) >= 6
    /\ GroupOf(Returned[1]) = 1
    /\ Cardinality(DanglingEnds) >= 3
    /\ <<2, 1>> \in DanglingEnds /\ <<2, 2>> \in DanglingEnds
    /\ Cardinality(OrphanedSubcategories) = 2

-----------------------------------------------------------------------------
(* The CSV importer and the core. *)

\* the core's element for an identifier the importer stores
CoreCategory(id) == CSFCategory(Raw(id, "category", ""))

CoreSubcategory(id) == CSFSubcategory(Raw(id, "subcategory", ""))

\* C21: every category row the importer stores has an identifier of the
\* category grammar and a function_id equal to get_parent_function() of the
\* core's category with that identifier; every subcategory row has an
\* identifier of the subcategory grammar and a category_id equal to
\* get_parent_category() of the core's subcategory with that identifier.
C21_ImporterKeepsParentDerivation ==
    /\ \A i \in 1..Len(db.categories) :
           /\ CoreCategory(db.categories[i].id) # ValidationError
           /\ db.categories[i].function_id =
                  CSFCategory_get_parent_function(CoreCategory(db.categories[i].id))
    /\ \A i \in 1..Len(db.subcategories) :
           /\ CoreSubcategory(db.subcategories[i].id) # ValidationError
           /\ db.subcategories[i].category_id =
                  CSFSubcategory_get_parent_category(
                      CoreSubcategory(db.subcategories[i].id))

\* an import stored two categories and two subcategories, one of them taken
\* from a padded cell
C21_Witness ==
    /\ call.op = "import_csv_framework"
    /\ Len(db.categories) = 2
    /\ Len(db.subcategories) = 2
    /\ \E i \in 1..2 : db.subcategories[i].id = GV_OC_02
    /\ \E i \in 1..2 : db.categories[i].function_id = XX

-----------------------------------------------------------------------------
(* The prefix scans and the decomposition of identifiers. *)

\* the cached elements of a cache
Cached(cache) == {cache[i].value : i \in 1..Len(cache)}

\* C22: get_categories_for_function(p) returns exactly the cached categories
\* whose get_parent_function() is p, and get_subcategories_for_category(p)
\* exactly the cached subcategories whose get_parent_category() is p, each
\* once.
C22_ScanAgreesWithParents ==
    /\ call.op = "get_categories_for_function"
       => LET children == {cat \in Cached(categories_cache) :
                              CSFCategory_get_parent_function(cat) = call.arg}
          IN  /\ Range(Returned) = children
              /\ Len(Returned) = Cardinality(children)
    /\ call.op = "get_subcategories_for_category"
       => LET children == {subcat \in Cached(subcategories_cache) :
                              CSFSubcategory_get_parent_category(subcat) = call.arg}
          IN  /\ Range(Returned) = children
              /\ Len(Returned) = Cardinality(children)

\* the subcategories of GV.OC were asked for, one of them with an identifier
\* that ends in a newline, beside a subcategory of another category
C22_Witness ==
    /\ call.op = "get_subcategories_for_category"
    /\ call.arg = GV_OC
    /\ Len(subcategories_cache) = 3
    /\ Len(Returned) = 2
    /\ \E i \in 1..2 : Returned[i].element_identifier = GV_OC_01_LF

\* the implementation example elements under the prefix s + ".", in sequence
\* order
ExamplesUnder(s) ==
    SelectSeq(elements,
              LAMBDA e : /\ e.element_type = "implementation_example"
                         /\ StartsWith(e.element_identifier, s \o <<".">>))

\* get_parent_subcategory() of the element is s
ParentSubcategoryIs(e, s) ==
    /\ \E i \in 1..Len(e.element_identifier) : e.element_identifier[i] = "."
    /\ \E i \in 1..Len(e.element_identifier) : e.element_identifier[i] = "-"
    /\ CSFImplementationExample_get_parent_subcategory(e) = s

\* the identifier is s, a dot, and a part without a dot
DirectlyUnder(id, s) ==
    /\ StartsWith(id, s \o <<".">>)
    /\ \A i \in (Len(s) + 2)..Len(id) : id[i] # "."

\* C23 as stated: every element get_implementation_examples(s) returns is
\* an implementation example whose get_parent_subcategory() is s; the
\* result is in element order, duplicates included.
C23_OnlyDirectExamples ==
    call.op = "get_implementation_examples"
        => /\ \A i \in 1..Len(Returned) :
                  /\ Returned[i].element_type = "implementation_example"
                  /\ ParentSubcategoryIs(Returned[i], call.arg)
           /\ Returned = SelectSeq(ExamplesUnder(call.arg),
                                   LAMBDA e : ParentSubcategoryIs(e, call.arg))

\* C23: every element get_implementation_examples(s) returns is an
\* implementation example whose identifier starts with s + "."; its
\* get_parent_subcategory() is s when the identifier has a hyphen and no dot
\* after that prefix.  The result is in element order, duplicates included.
C23_ExamplesUnderPrefix ==
    call.op = "get_implementation_examples"
        => /\ Returned = ExamplesUnder(call.arg)
           /\ \A i \in 1..Len(Returned) :
                  /\ Returned[i].cls = "CSFImplementationExample"
                  /\ (/\ DirectlyUnder(Returned[i].element_identifier, call.arg)
                      /\ Contains(Returned[i].element_identifier, "-"))
                     => ParentSubcategoryIs(Returned[i], call.arg)

\* the examples of GV.OC-01: one element twice, after an element of another
\* kind with the same identifier
C23_Witness ==
    /\ call.op = "get_implementation_examples"
    /\ call.arg = GV_OC_01
    /\ Len(elements) = 3
    /\ elements[1].element_type = "withdraw_reason"
    /\ elements[1].element_identifier = GV_OC_01_001
    /\ Returned = <<elements[2], elements[3]>>
    /\ elements[2] = elements[3]
    /\ ParentSubcategoryIs(elements[2], GV_OC_01)

-----------------------------------------------------------------------------
(* The indexed lookups and the scan. *)

\* the last call was a lookup in a cache and found an element
FoundInCache ==
    /\ call.op \in {"get_function", "get_category", "get_subcategory"}
    /\ Returned # None

\* the positions of the elements that carry id
Carrying(id) == {i \in 1..Len(elements) : elements[i].element_identifier = id}

\* C24 as stated: whenever get_function(id), get_category(id) or
\* get_subcategory(id) returns an element, get_element_by_id(id) returns that
\* same element.
C24_LookupsAgree ==
    FoundInCache => get_element_by_id(call.arg) = Returned

\* C24: whenever get_function(id), get_category(id) or get_subcategory(id)
\* returns an element, get_element_by_id(id) returns the first element of
\* the sequence that carries id, of whatever kind; it is the element the
\* lookup returned when no other element carries id.
C24_LookupsAgreeOnUniqueIds ==
    FoundInCache
        => /\ Carrying(call.arg) # {}
           /\ get_element_by_id(call.arg) =
                  elements[CHOOSE i \in Carrying(call.arg) :
                               \A j \in Carrying(call.arg) : i <= j]
           /\ Cardinality(Carrying(call.arg)) = 1
                  => get_element_by_id(call.arg) = Returned

\* a lookup found the only element with its identifier, among others
C24_Witness ==
    /\ FoundInCache
    /\ Len(elements) = 3
    /\ Cardinality(Carrying(call.arg)) = 1
    /\ elements[3] = Returned
    /\ get_element_by_id(call.arg) = Returned

=============================================================================
